---- MODULE Spec2Model ----
(***************************************************************************)
(* The client-side authentication session of the finance tracker:          *)
(* AuthProvider (contexts/auth-context, kept in src/utils/categoryIcons.ts *)
(* from line 71 on) and the axios adapter (src/services/api-client.ts).    *)
(*                                                                         *)
(* JavaScript runs each handler to its next await on network or storage    *)
(* I/O; an action of this module is one such run.  AsyncStorage executes   *)
(* its operations in the order they are issued, so the effect of a storage *)
(* operation is taken when it is issued and the continuation after the     *)
(* await is a later action.  React renders after a handler has returned    *)
(* and runs the route guard (an effect of NavigationShell) after the       *)
(* render: a redirect of the guard is an action of its own.                *)
(***************************************************************************)
EXTENDS Integers, FiniteSets, Bags, TLC

\* ---------------------------------------------------------------- bounds
MaxTasks == 2        \* session operations in flight at once (bootstrap included)
MaxTasksFaulty == 1  \* the same, in a run where AsyncStorage can fail
MaxTasksLax == 1     \* the same, in a run where the backend checks no credential
NumTokens == 2       \* distinct access token strings the backend hands out
NumRefreshTokens == 1 \* distinct refresh token strings the backend hands out
NumProfiles == 1     \* distinct user records the backend hands out

\* ------------------------------------------------------------- constants
Null == 0
Tokens == 1..NumTokens
\* refresh tokens are strings of their own
RefreshTokens == (NumTokens + 1)..(NumTokens + NumRefreshTokens)
Profiles == 1..NumProfiles
\* expiresIn of a login / refresh response, in seconds; 0 is "not given"
ExpiresInValues == {0, 10, 600}
\* bootstrap schedules with a fixed 14 minutes
BootExpiresIn == 14 * 60
EmptyStore == [auth_token |-> Null, refresh_token |-> Null]
NoResponse == [status |-> 0]
\* what the network does with a request: an HTTP response, or no response
RawOutcomes == {[net |-> FALSE, status |-> 200], [net |-> FALSE, status |-> 401],
                [net |-> FALSE, status |-> 500], [net |-> TRUE, status |-> 0]}
UserOps == {"refreshUser", "updateProfile", "updateTargets"}
\* the route groups: segments[0] is '(auth)' or it is not
Groups == {"(auth)", "(app)"}

VARIABLES
  user,               \* useState user: Null or a profile
  token,              \* useState token (the in-memory access token)
  refreshToken,       \* useState refreshToken
  status,             \* "loading" | "ready"
  authToken,          \* api-client's module-level bearer token
  store,              \* AsyncStorage: auth_token, refresh_token
  timers,             \* pending setTimeout timers: [id, delay (ms), from (s), replaced]
  refreshTimeoutRef,  \* refreshTimeoutRef.current: a timer id, or Null
  tasks,              \* bag of the async calls in flight
  ret,                \* the call that returned in the last step, if any
  seq,                \* 1 after a login alone, 2 after refresh successes on it, else 0
  faulty,             \* whether AsyncStorage operations can fail in this run
  lax,                \* whether the backend answers unauthenticated requests freely
  location,           \* the route group of the current screen
  alert,              \* the open logout alert: {} or {the refreshToken its logout saw}
  memo                \* the refreshToken seen by the logout of the memoized context value

vars == <<user, token, refreshToken, status, authToken, store, timers,
          refreshTimeoutRef, tasks, ret, seq, faulty, lax, location, alert, memo>>

Max(a, b) == IF a >= b THEN a ELSE b

\* ------------------------------------------------------------ api-client
\* axios' own validateStatus: only 2xx resolves
ValidateStatusDefault(httpStatus) == httpStatus >= 200 /\ httpStatus < 300

\* a validateStatus that resolves below 400 only
ValidateStatusBelow400(httpStatus) == httpStatus < 400

ValidateStatus(httpStatus) == TRUE

\* error.response?.status, 0 for undefined
ErrResponseStatus(err) == err.response.status

\* a first handler that lets 4xx responses through (rejects 5xx only)
OnFulfilledLenient(httpStatus) ==
  IF httpStatus >= 500
    THEN [ok |-> FALSE, err |-> [status |-> httpStatus, response |-> NoResponse],
          cleared |-> FALSE]
    ELSE [ok |-> TRUE, err |-> [status |-> httpStatus, response |-> NoResponse],
          cleared |-> FALSE]

\* the response interceptor's first handler
OnFulfilled(httpStatus) ==
  IF httpStatus >= 400
    THEN [ok |-> FALSE, err |-> [status |-> httpStatus, response |-> NoResponse],
          cleared |-> FALSE]
    ELSE [ok |-> TRUE, err |-> [status |-> httpStatus, response |-> NoResponse],
          cleared |-> FALSE]

\* the response interceptor's second handler: it removes both keys and the
\* bearer token when error.response.status is 401, and rejects in every case
OnRejected(error) ==
  [ok |-> FALSE, err |-> error, cleared |-> (ErrResponseStatus(error) = 401)]

\* what the caller of api.get/post/put gets for a network outcome
Deliver(raw) ==
  IF raw.net
    THEN OnRejected([status |-> 0, response |-> NoResponse])
    ELSE IF ValidateStatus(raw.status)
      THEN OnFulfilled(raw.status)
      ELSE OnRejected([status |-> 0, response |-> [status |-> raw.status]])

\* the request interceptor adds Authorization when the bearer token is set
RequestInterceptor(bearerToken) == bearerToken # Null

\* the backend answers 200 on /auth/me, /auth/profile and /auth/targets only
\* to a request that carries a bearer token (the tasks record the header
\* for these requests only); in a lax run it may answer anything
BackendOutcomes(protected, bearer) ==
  IF protected /\ ~bearer /\ ~lax THEN {o \in RawOutcomes : o.status # 200}
  ELSE RawOutcomes

\* what the backend did, as the task remembers it: "rejected" is a 401,
\* "error" any other status from 400 on
RespKind(raw) ==
  IF raw.net THEN "network"
  ELSE IF raw.status = 401 THEN "rejected"
  ELSE IF raw.status >= 400 THEN "error" ELSE "ok"

\* ------------------------------------------------- the session as a value
Session ==
  [user |-> user, token |-> token, refreshToken |-> refreshToken,
   authToken |-> authToken, store |-> store, timers |-> timers,
   ref |-> refreshTimeoutRef]

Commit(s) ==
  /\ user' = s.user
  /\ token' = s.token
  /\ refreshToken' = s.refreshToken
  /\ authToken' = s.authToken
  /\ store' = s.store
  /\ timers' = s.timers
  /\ refreshTimeoutRef' = s.ref

\* the render after the step: useMemo builds the context value anew, with
\* a logout that sees the refreshToken of this render, when user, token or
\* status has changed; setUser with the record of a response (fresh)
\* always changes user
Memoized(fresh) ==
  memo' = IF fresh \/ <<user', token', status'>> # <<user, token, status>>
            THEN refreshToken'
            ELSE memo

\* a first handler that clears the whole session on a 401
AfterFulfilledClearsAll(s, httpStatus) ==
  IF httpStatus = 401
    THEN [s EXCEPT !.user = Null, !.token = Null, !.refreshToken = Null,
                   !.store = EmptyStore, !.authToken = Null]
    ELSE s

\* the session after the first handler has taken a response: it resolves
\* or rejects and touches nothing
AfterFulfilled(s, httpStatus) == s

\* the 401 branch of the second handler issues removeItem(key)
InterceptorRemoves(s, key, removed) ==
  IF removed THEN [s EXCEPT !.store = [s.store EXCEPT ![key] = Null]] ELSE s

\* the 401 branch after its two awaits: setAuthToken(null)
InterceptorEnds(s) == [s EXCEPT !.authToken = Null]

\* what the second handler rejects with: the error it was given, or the
\* error of a removeItem that failed
Unauthorized == [status |-> 0, response |-> [status |-> 401]]
StorageError == [status |-> 0, response |-> NoResponse]

ClearTimeout(pending, id) == {t \in pending : t.id # id}

\* setTimeout ids are never reused while something still refers to them
FreshId(pending, ref) ==
  CHOOSE i \in 1..(Cardinality(pending) + 2) :
    /\ i # ref
    /\ \A t \in pending : t.id # i
    /\ \A j \in 1..(i - 1) : j = ref \/ \E t \in pending : t.id = j

\* a refresh time without the 30 s minimum
RefreshTimeNoFloor(expiresIn) == (expiresIn - 60) * 1000

RefreshTime(expiresIn) == Max((expiresIn - 60) * 1000, 30000)

\* a timer as setTimeout registers it; replaced tells whether the call
\* that set it cancelled a pending one
Timer(id, expiresIn, replaced) ==
  [id |-> id, delay |-> RefreshTime(expiresIn), from |-> expiresIn,
   replaced |-> replaced]

\* a scheduleTokenRefresh that does not cancel the pending timer
ScheduleNoCancel(s, expiresIn) ==
  LET id == FreshId(s.timers, s.ref)
  IN [s EXCEPT !.timers = s.timers \cup {Timer(id, expiresIn, FALSE)}, !.ref = id]

ScheduleTokenRefresh(s, expiresIn) ==
  LET kept == IF s.ref # Null THEN ClearTimeout(s.timers, s.ref) ELSE s.timers
      id == FreshId(kept, s.ref)
  IN [s EXCEPT !.timers = kept \cup {Timer(id, expiresIn, kept # s.timers)},
               !.ref = id]

\* an AsyncStorage operation resolves, or (in a faulty run) rejects and
\* leaves the storage as it was
StorageOutcomes == IF faulty THEN {TRUE, FALSE} ELSE {TRUE}

\* calls the model lets be pending at once
Capacity ==
  IF faulty THEN MaxTasksFaulty ELSE IF lax THEN MaxTasksLax ELSE MaxTasks

\* a clearSession that removes auth_token only
ClearSessionKeepsRefresh(s, removed) ==
  [s EXCEPT !.user = Null, !.token = Null, !.refreshToken = Null,
            !.authToken = Null,
            !.store = IF removed THEN [s.store EXCEPT !.auth_token = Null] ELSE s.store]

\* a clearSession that removes refresh_token only
ClearSessionKeepsAccess(s, removed) ==
  [s EXCEPT !.user = Null, !.token = Null, !.refreshToken = Null,
            !.authToken = Null,
            !.store = IF removed THEN [s.store EXCEPT !.refresh_token = Null] ELSE s.store]

\* clearSession up to its await: the four setters and multiRemove
ClearSessionStart(s, removed) ==
  [s EXCEPT !.user = Null, !.token = Null, !.refreshToken = Null,
            !.authToken = Null,
            !.store = IF removed THEN EmptyStore ELSE s.store]

\* clearSession after its await: clearTimeout(refreshTimeoutRef.current)
ClearSessionEnd(s) ==
  IF s.ref # Null THEN [s EXCEPT !.timers = ClearTimeout(s.timers, s.ref)] ELSE s

\* persistSession up to its await: the four setters and multiSet
PersistSessionStart(s, accessToken, refreshTkn, nextUser, written) ==
  [s EXCEPT !.authToken = accessToken, !.token = accessToken,
            !.refreshToken = refreshTkn, !.user = nextUser,
            !.store = IF written
                        THEN [auth_token |-> accessToken, refresh_token |-> refreshTkn]
                        ELSE s.store]

\* a persistSession that schedules nothing
PersistNoSchedule(s, expiresIn) == s

\* persistSession after its await
PersistSessionEnd(s, expiresIn) ==
  IF expiresIn # 0 THEN ScheduleTokenRefresh(s, expiresIn) ELSE s

\* a refreshAccessToken that keeps the new token in memory only
RefreshStoreMemoryOnly(s, newAccessToken, written) ==
  [s EXCEPT !.authToken = newAccessToken, !.token = newAccessToken]

\* refreshAccessToken on a successful response, up to the await of setItem
RefreshStore(s, newAccessToken, written) ==
  [s EXCEPT !.authToken = newAccessToken, !.token = newAccessToken,
            !.store.auth_token = IF written THEN newAccessToken ELSE s.store.auth_token]

\* refreshAccessToken after setItem
RefreshReschedule(s, expiresIn) ==
  IF expiresIn # 0 THEN ScheduleTokenRefresh(s, expiresIn) ELSE s

\* ------------------------------------------------------------ route guard
\* an effect that does not wait for bootstrap
RouteGuardEager(st, u, loc) ==
  IF u = Null /\ loc # "(auth)" THEN "login"
  ELSE IF u # Null /\ loc = "(auth)" THEN "home"
  ELSE "none"

\* an effect without the redirect to login
RouteGuardNoLogin(st, u, loc) ==
  IF st = "loading" THEN "none"
  ELSE IF u # Null /\ loc = "(auth)" THEN "home"
  ELSE "none"

\* the effect of NavigationShell: the redirect it issues, if any
RouteGuard(st, u, loc) ==
  IF st = "loading" THEN "none"
  ELSE IF u = Null /\ loc # "(auth)" THEN "login"
  ELSE IF u # Null /\ loc = "(auth)" THEN "home"
  ELSE "none"

\* where router.replace leaves the screen
RedirectTarget(to, loc) ==
  IF to = "login" THEN "(auth)" ELSE IF to = "home" THEN "(app)" ELSE loc

\* ------------------------------------------------------------------ tasks
NoTask ==
  [op |-> "none", pc |-> "none", boot |-> FALSE, acc |-> Null, rt |-> Null,
   exp |-> 0, reqs |-> 0, bearer |-> FALSE, resp |-> "none", sok |-> TRUE,
   solo |-> FALSE, pure |-> FALSE, ovl |-> FALSE, ovlFail |-> FALSE, inSeq |-> 0,
   fetch |-> "none", icpt |-> "none"]

NoRet == [result |-> "none", t |-> NoTask]

\* the mark of a step that started the process anew
Started == [result |-> "start", t |-> NoTask]

\* the mark of a step in which the route guard redirected
Redirected(to) == [result |-> to, t |-> NoTask]

InFlight == BagToSet(tasks)

\* the calls in flight and the call an open alert can still make
Pending == BagCardinality(tasks) + Cardinality(alert)

\* a call that starts now: alone if nothing else is in flight
NewTask(op, pc) ==
  [NoTask EXCEPT !.op = op, !.pc = pc,
                 !.solo = (tasks = EmptyBag),
                 !.pure = (op = "refresh" /\ \A x \in InFlight : x.op = "refresh" /\ ~x.boot)]

Overlapped(x, op) ==
  [x EXCEPT !.solo = FALSE, !.pure = (x.pure /\ op = "refresh")]

Spawn(t) ==
  tasks' = BagOfAll(LAMBDA x : Overlapped(x, t.op), tasks) (+) SetToBag({t})

Step(t, t2) == tasks' = (tasks (-) SetToBag({t})) (+) SetToBag({t2})

Finish(t) == tasks' = tasks (-) SetToBag({t})

\* a refreshAccessToken call t returns: the refresh calls still in flight
\* have overlapped with it, and it has failed if it had a refresh token to
\* post and did not return true
SawRefresh(x, t, ok) ==
  IF x.op = "refresh"
    THEN [x EXCEPT !.ovl = TRUE, !.ovlFail = (x.ovlFail \/ (~ok /\ t.rt # Null))]
    ELSE x

FinishRefresh(t, ok) ==
  tasks' = BagOfAll(LAMBDA x : SawRefresh(x, t, ok), tasks (-) SetToBag({t}))

Returned(t, result) == ret' = [result |-> result, t |-> [t EXCEPT !.inSeq = seq]]

\* the 401 branch of the second handler, for the request of call t: it
\* issues removeItem('auth_token'), then removeItem('refresh_token'), and
\* awaits each; resp is what the backend did
InterceptorStep(t, resp) ==
  LET key == IF t.icpt = "none" THEN "auth_token" ELSE "refresh_token"
  IN \E removed \in StorageOutcomes :
       /\ Commit(InterceptorRemoves(Session, key, removed))
       /\ Step(t, [t EXCEPT !.icpt = key, !.resp = resp, !.sok = removed])
       /\ ret' = NoRet

\* the call whose request the second handler has rejected
Resumed(t) == [t EXCEPT !.icpt = "none", !.sok = TRUE]

\* --------------------------------------------------------------- startup
BootTask(stored) ==
  [NoTask EXCEPT !.op = "bootstrap", !.pc = "getAuth", !.acc = stored, !.solo = TRUE]

Init ==
  /\ user = Null
  /\ token = Null
  /\ refreshToken = Null
  /\ status = "loading"
  /\ authToken = Null
  /\ store = EmptyStore
  /\ timers = {}
  /\ refreshTimeoutRef = Null
  /\ tasks = SetToBag({BootTask(Null)})
  /\ ret = NoRet
  /\ seq = 0
  /\ faulty = FALSE
  /\ lax = FALSE
  /\ location \in Groups
  /\ alert = {}
  /\ memo = Null

\* the same start, in a run whose AsyncStorage operations may fail
InitF ==
  /\ user = Null
  /\ token = Null
  /\ refreshToken = Null
  /\ status = "loading"
  /\ authToken = Null
  /\ store = EmptyStore
  /\ timers = {}
  /\ refreshTimeoutRef = Null
  /\ tasks = SetToBag({BootTask(Null)})
  /\ ret = NoRet
  /\ seq = 0
  /\ faulty = TRUE
  /\ lax = FALSE
  /\ location \in Groups
  /\ alert = {}
  /\ memo = Null

\* the same start, in a run whose backend may answer any request with 200
InitB ==
  /\ user = Null
  /\ token = Null
  /\ refreshToken = Null
  /\ status = "loading"
  /\ authToken = Null
  /\ store = EmptyStore
  /\ timers = {}
  /\ refreshTimeoutRef = Null
  /\ tasks = SetToBag({BootTask(Null)})
  /\ ret = NoRet
  /\ seq = 0
  /\ faulty = FALSE
  /\ lax = TRUE
  /\ location \in Groups
  /\ alert = {}
  /\ memo = Null

\* the process is killed and started again: only AsyncStorage survives
Restart ==
  /\ user' = Null
  /\ token' = Null
  /\ refreshToken' = Null
  /\ status' = "loading"
  /\ authToken' = Null
  /\ timers' = {}
  /\ refreshTimeoutRef' = Null
  /\ tasks' = SetToBag({BootTask(store.auth_token)})
  /\ ret' = Started
  /\ seq' = 0
  /\ UNCHANGED <<store, faulty, lax>>
  /\ location' \in Groups
  /\ alert' = {}
  /\ memo' = Null

\* -------------------------------------------------------------- bootstrap
\* a bootstrap without the finally: ready only when nothing failed
BootEndsHangs(t, done) ==
  /\ status' = IF done.sok /\ done.resp # "network" THEN "ready" ELSE status
  /\ Finish(t)
  /\ Returned(done, "ok")

\* the catch and finally around bootstrap: log, setStatus('ready')
BootEnds(t, done) ==
  /\ status' = "ready"
  /\ Finish(t)
  /\ Returned(done, "ok")

\* resumes after getItem('auth_token'); issues getItem('refresh_token')
BootReadRefresh(t) ==
  /\ t.op = "bootstrap" /\ t.pc = "getAuth"
  /\ \E read \in StorageOutcomes :
       IF read
         THEN /\ Step(t, [t EXCEPT !.pc = "getRefresh", !.rt = store.refresh_token])
              /\ ret' = NoRet
              /\ UNCHANGED status
         ELSE BootEnds(t, [t EXCEPT !.sok = FALSE])
  /\ UNCHANGED <<user, token, refreshToken, authToken, store, timers,
                 refreshTimeoutRef, seq, faulty, lax>>
  /\ UNCHANGED <<location, alert>>
  /\ Memoized(FALSE)

\* resumes with both stored values: restores the token and asks for the
\* profile, or has nothing to restore and is ready
BootRestore(t) ==
  /\ t.op = "bootstrap" /\ t.pc = "getRefresh"
  /\ \E read \in StorageOutcomes :
       IF read /\ t.acc # Null
         THEN /\ authToken' = t.acc
              /\ token' = t.acc
              /\ refreshToken' = t.rt
              /\ Step(t, [t EXCEPT !.pc = "fetch", !.reqs = 1,
                                   !.bearer = RequestInterceptor(t.acc)])
              /\ ret' = NoRet
              /\ UNCHANGED status
         ELSE /\ BootEnds(t, [t EXCEPT !.sok = read])
              /\ UNCHANGED <<authToken, token, refreshToken>>
  /\ UNCHANGED <<user, store, timers, refreshTimeoutRef, seq, faulty, lax>>
  /\ UNCHANGED <<location, alert>>
  /\ Memoized(FALSE)

\* a catch that tries a refresh after any failure of fetchProfile
BootAlwaysTriesRefresh(storedRefreshToken, err) == storedRefreshToken # Null

\* the catch around fetchProfile tries a refresh when a refresh token was
\* stored and err.response?.status is 401
BootTriesRefresh(storedRefreshToken, err) ==
  storedRefreshToken # Null /\ ErrResponseStatus(err) = 401

\* a bootstrap that schedules no refresh after fetchProfile
BootFetchedNoSchedule(s, u) == [s EXCEPT !.user = u]

\* fetchProfile succeeded inside bootstrap: setUser, scheduleTokenRefresh(14 * 60)
BootFetched(s, u) == ScheduleTokenRefresh([s EXCEPT !.user = u], BootExpiresIn)

\* the answer to GET /auth/me inside bootstrap
BootProfile(t) ==
  /\ t.op = "bootstrap" /\ t.pc = "fetch"
  /\ LET Fails(x, err, s) ==
           IF BootTriesRefresh(t.rt, err)
             THEN \* refreshAccessToken(): getItem('refresh_token') is issued
                  /\ Commit(s)
                  /\ Step(t, [x EXCEPT !.op = "refresh", !.boot = TRUE, !.pc = "read",
                                       !.rt = s.store.refresh_token,
                                       !.fetch = x.resp])
                  /\ ret' = NoRet
                  /\ UNCHANGED status
                  /\ Memoized(FALSE)
             ELSE \E removed \in StorageOutcomes :
                    /\ Commit(ClearSessionStart(s, removed))
                    /\ Step(t, [x EXCEPT !.pc = "clear", !.fetch = x.resp,
                                         !.sok = removed])
                    /\ ret' = NoRet
                    /\ UNCHANGED status
                    /\ Memoized(FALSE)
     IN IF t.icpt = "none"
          THEN \E raw \in BackendOutcomes(TRUE, t.bearer) :
                 LET d == Deliver(raw)
                     s0 == AfterFulfilled(Session, raw.status)
                 IN IF d.cleared
                      THEN /\ InterceptorStep(t, RespKind(raw))
                           /\ UNCHANGED status
                           /\ Memoized(FALSE)
                      ELSE IF d.ok
                        THEN \E u \in Profiles :
                               /\ Commit(BootFetched(s0, u))
                               /\ BootEnds(t, [t EXCEPT !.resp = RespKind(raw),
                                                        !.fetch = RespKind(raw)])
                               /\ Memoized(TRUE)
                        ELSE Fails([t EXCEPT !.resp = RespKind(raw)], d.err, s0)
          ELSE IF ~t.sok THEN Fails(Resumed(t), StorageError, Session)
          ELSE IF t.icpt = "auth_token"
            THEN /\ InterceptorStep(t, t.resp)
                 /\ UNCHANGED status
                 /\ Memoized(FALSE)
            ELSE Fails(Resumed(t), Unauthorized, InterceptorEnds(Session))
  /\ UNCHANGED <<seq, faulty, lax>>
  /\ UNCHANGED <<location, alert>>

\* clearSession inside bootstrap resumes after multiRemove (a rejection
\* skips its clearTimeout); finally: ready
BootCleared(t) ==
  /\ t.op = "bootstrap" /\ t.pc = "clear"
  /\ Commit(IF t.sok THEN ClearSessionEnd(Session) ELSE Session)
  /\ BootEnds(t, t)
  /\ UNCHANGED <<seq, faulty, lax>>
  /\ UNCHANGED <<location, alert>>
  /\ Memoized(FALSE)

\* ------------------------------------------------------- login / register
CallAuth(op) ==
  /\ Pending < Capacity
  /\ Spawn([NewTask(op, "post") EXCEPT !.reqs = 1])
  /\ ret' = NoRet
  /\ seq' = 0
  /\ UNCHANGED <<user, token, refreshToken, status, authToken, store, timers,
                 refreshTimeoutRef, faulty, lax>>
  /\ UNCHANGED <<location, alert>>
  /\ Memoized(FALSE)

\* the answer to POST /auth/login or /auth/register
AuthResponse(t) ==
  /\ t.op \in {"login", "register"} /\ t.pc = "post"
  /\ LET Fails(x, err, s) ==
           /\ Commit(s)
           /\ Finish(t)
           /\ Returned(x, "raise")
           /\ seq' = 0
           /\ UNCHANGED status
           /\ Memoized(FALSE)
     IN IF t.icpt = "none"
          THEN \E raw \in BackendOutcomes(FALSE, t.bearer) :
                 LET d == Deliver(raw)
                     s0 == AfterFulfilled(Session, raw.status)
                 IN IF d.cleared
                      THEN /\ InterceptorStep(t, RespKind(raw))
                           /\ UNCHANGED <<seq, status>>
                           /\ Memoized(FALSE)
                      ELSE IF d.ok
                        THEN \E a \in Tokens, r \in RefreshTokens, u \in Profiles,
                                e \in ExpiresInValues, written \in StorageOutcomes :
                               /\ Commit(PersistSessionStart(s0, a, r, u, written))
                               /\ Step(t, [t EXCEPT !.pc = "persist", !.acc = a,
                                                    !.rt = r, !.exp = e,
                                                    !.resp = RespKind(raw),
                                                    !.sok = written])
                               /\ ret' = NoRet
                               /\ UNCHANGED <<seq, status>>
                               /\ Memoized(TRUE)
                        ELSE Fails([t EXCEPT !.resp = RespKind(raw)], d.err, s0)
          ELSE IF ~t.sok THEN Fails(Resumed(t), StorageError, Session)
          ELSE IF t.icpt = "auth_token"
            THEN /\ InterceptorStep(t, t.resp)
                 /\ UNCHANGED <<seq, status>>
                 /\ Memoized(FALSE)
            ELSE Fails(Resumed(t), Unauthorized, InterceptorEnds(Session))
  /\ UNCHANGED <<faulty, lax>>
  /\ UNCHANGED <<location, alert>>

\* where the screen that called login or register goes when the call has
\* returned: the login screen to home, the register screen to verify-email
AfterAuth(op) == IF op = "login" THEN "(app)" ELSE "(auth)"

\* persistSession resumes after multiSet; the calling screen navigates
AuthPersisted(t) ==
  /\ t.op \in {"login", "register"} /\ t.pc = "persist"
  /\ IF t.sok
       THEN /\ Commit(PersistSessionEnd(Session, t.exp))
            /\ Returned(t, "ok")
            /\ seq' = IF t.op = "login" /\ t.solo THEN 1 ELSE 0
       ELSE /\ Commit(Session)
            /\ Returned(t, "raise")
            /\ seq' = 0
  /\ Finish(t)
  /\ UNCHANGED <<status, faulty, lax>>
  /\ location' = IF t.sok THEN AfterAuth(t.op) ELSE location
  /\ UNCHANGED alert
  /\ Memoized(FALSE)

\* ----------------------------------------------------------------- logout
\* logout starts, seeing the refreshToken of the render that created it:
\* if (refreshToken) await api.post('/auth/logout'), else clearSession
LogoutStarts(seen) ==
  /\ IF seen # Null
       THEN /\ Spawn([NewTask("logout", "post") EXCEPT !.reqs = 1])
            /\ UNCHANGED <<user, token, refreshToken, authToken, store, timers,
                           refreshTimeoutRef>>
       ELSE \E removed \in StorageOutcomes :
              /\ Spawn([NewTask("logout", "clear") EXCEPT !.sok = removed])
              /\ Commit(ClearSessionStart(Session, removed))
  /\ ret' = NoRet
  /\ UNCHANGED <<status, seq, faulty, lax>>

\* a caller of the context value of the latest render calls logout()
CallLogout ==
  /\ Pending < Capacity
  /\ LogoutStarts(memo)
  /\ UNCHANGED <<location, alert>>
  /\ Memoized(FALSE)

\* ProfileScreen.handleLogout: Alert.alert with the logout of this render
\* as the onPress of its Logout button
OpenAlert ==
  /\ Pending < Capacity
  /\ location = "(app)"
  /\ alert = {}
  /\ alert' = {memo}
  /\ UNCHANGED memo
  /\ ret' = NoRet
  /\ UNCHANGED <<user, token, refreshToken, status, authToken, store, timers,
                 refreshTimeoutRef, tasks, seq, faulty, lax, location>>

\* the Logout button of the alert is pressed: the logout it holds runs
PressLogout ==
  /\ \E seen \in alert : LogoutStarts(seen)
  /\ alert' = {}
  /\ UNCHANGED location
  /\ Memoized(FALSE)

\* the Cancel button of the alert is pressed
CancelAlert ==
  /\ alert # {}
  /\ alert' = {}
  /\ UNCHANGED memo
  /\ ret' = NoRet
  /\ UNCHANGED <<user, token, refreshToken, status, authToken, store, timers,
                 refreshTimeoutRef, tasks, seq, faulty, lax, location>>

\* a logout whose catch rethrows
LogoutRethrows == FALSE

\* the try around the POST has a catch that ignores the error
LogoutCatches == TRUE

\* the answer to POST /auth/logout
LogoutResponse(t) ==
  /\ t.op = "logout" /\ t.pc = "post"
  /\ LET Proceeds(x, s) ==
           \E removed \in StorageOutcomes :
             /\ Commit(ClearSessionStart(s, removed))
             /\ Step(t, [x EXCEPT !.pc = "clear", !.sok = removed])
             /\ ret' = NoRet
             /\ UNCHANGED seq
         Fails(x, err, s) ==
           IF LogoutCatches
             THEN Proceeds(x, s)
             ELSE /\ Commit(s)
                  /\ Finish(t)
                  /\ Returned(x, "raise")
                  /\ seq' = 0
     IN IF t.icpt = "none"
          THEN \E raw \in BackendOutcomes(FALSE, t.bearer) :
                 LET d == Deliver(raw)
                     s0 == AfterFulfilled(Session, raw.status)
                 IN IF d.cleared
                      THEN InterceptorStep(t, RespKind(raw)) /\ UNCHANGED seq
                      ELSE IF d.ok
                        THEN Proceeds([t EXCEPT !.resp = RespKind(raw)], s0)
                        ELSE Fails([t EXCEPT !.resp = RespKind(raw)], d.err, s0)
          ELSE IF ~t.sok THEN Fails(Resumed(t), StorageError, Session)
          ELSE IF t.icpt = "auth_token"
            THEN InterceptorStep(t, t.resp) /\ UNCHANGED seq
            ELSE Fails(Resumed(t), Unauthorized, InterceptorEnds(Session))
  /\ UNCHANGED <<status, faulty, lax>>
  /\ UNCHANGED <<location, alert>>
  /\ Memoized(FALSE)

\* clearSession inside logout resumes after multiRemove
LogoutCleared(t) ==
  /\ t.op = "logout" /\ t.pc = "clear"
  /\ IF t.sok
       THEN /\ Commit(ClearSessionEnd(Session))
            /\ Returned(t, "ok")
       ELSE /\ Commit(Session)
            /\ Returned(t, "raise")
  /\ Finish(t)
  /\ seq' = 0
  /\ UNCHANGED <<status, faulty, lax>>
  /\ UNCHANGED <<location, alert>>
  /\ Memoized(FALSE)

\* ----------------------------------------------------- refreshAccessToken
\* refreshAccessToken returns "true" or "false", or raises, with the
\* session s; a call made by bootstrap continues bootstrap
RefreshReturns(t, s, result) ==
  /\ Returned(t, result)
  /\ seq' = IF seq > 0 /\ t.solo /\ result = "true" THEN 2 ELSE 0
  /\ IF t.boot /\ result = "false"
       THEN \E removed \in StorageOutcomes :
              /\ Commit(ClearSessionStart(s, removed))
              /\ tasks' = BagOfAll(LAMBDA x : SawRefresh(x, t, FALSE), tasks (-) SetToBag({t}))
                           (+) SetToBag({[t EXCEPT !.op = "bootstrap", !.boot = FALSE,
                                                   !.pc = "clear", !.sok = removed]})
              /\ UNCHANGED status
       ELSE /\ Commit(s)
            /\ FinishRefresh(t, result = "true")
            /\ status' = IF t.boot THEN "ready" ELSE status

\* the timer callback runs: refreshAccessToken issues getItem('refresh_token')
TimerFires ==
  /\ Pending < Capacity
  /\ \E tm \in timers :
       /\ timers' = timers \ {tm}
       /\ Spawn([NewTask("refresh", "read") EXCEPT !.rt = store.refresh_token])
  /\ ret' = NoRet
  /\ UNCHANGED <<user, token, refreshToken, status, authToken, store,
                 refreshTimeoutRef, seq, faulty, lax>>
  /\ UNCHANGED <<location, alert>>
  /\ Memoized(FALSE)

\* a refreshAccessToken that posts whatever it read
RefreshReturnsEarlyNever(storedRefreshToken) == FALSE

\* if (!storedRefreshToken) return false
RefreshReturnsEarly(storedRefreshToken) == storedRefreshToken = Null

\* a caller of the context value calls refreshAccessToken(): it issues
\* getItem('refresh_token'); the pending timer stays
CallRefresh ==
  /\ Pending < Capacity
  /\ Spawn([NewTask("refresh", "read") EXCEPT !.rt = store.refresh_token])
  /\ ret' = NoRet
  /\ UNCHANGED <<user, token, refreshToken, status, authToken, store, timers,
                 refreshTimeoutRef, seq, faulty, lax>>
  /\ UNCHANGED <<location, alert>>
  /\ Memoized(FALSE)

\* resumes with the stored refresh token: none, return false; else POST;
\* a rejected getItem goes to the catch
RefreshRead(t) ==
  /\ t.op = "refresh" /\ t.pc = "read"
  /\ \E read \in StorageOutcomes :
       IF ~read
         THEN \E removed \in StorageOutcomes :
                /\ Commit(ClearSessionStart(Session, removed))
                /\ Step(t, [t EXCEPT !.pc = "clear", !.sok = removed])
                /\ ret' = NoRet
                /\ UNCHANGED <<status, seq>>
         ELSE IF RefreshReturnsEarly(t.rt)
           THEN RefreshReturns(t, Session, "false")
           ELSE /\ Step(t, [t EXCEPT !.pc = "post", !.reqs = 1])
                /\ ret' = NoRet
                /\ UNCHANGED <<user, token, refreshToken, status, authToken, store,
                               timers, refreshTimeoutRef, seq>>
  /\ UNCHANGED <<faulty, lax>>
  /\ UNCHANGED <<location, alert>>
  /\ Memoized(FALSE)

\* the answer to POST /auth/refresh-token
RefreshResponse(t) ==
  /\ t.op = "refresh" /\ t.pc = "post"
  /\ LET Fails(x, err, s) ==
           \E removed \in StorageOutcomes :
             /\ Commit(ClearSessionStart(s, removed))
             /\ Step(t, [x EXCEPT !.pc = "clear", !.sok = removed])
     IN IF t.icpt = "none"
          THEN \E raw \in BackendOutcomes(FALSE, t.bearer) :
                 LET d == Deliver(raw)
                     s0 == AfterFulfilled(Session, raw.status)
                 IN IF d.cleared
                      THEN InterceptorStep(t, RespKind(raw))
                      ELSE IF d.ok
                        THEN \E a \in Tokens, e \in ExpiresInValues,
                                written \in StorageOutcomes :
                               /\ Commit(RefreshStore(s0, a, written))
                               /\ Step(t, [t EXCEPT !.pc = "write", !.acc = a,
                                                    !.exp = e, !.resp = RespKind(raw),
                                                    !.sok = written])
                        ELSE Fails([t EXCEPT !.resp = RespKind(raw)], d.err, s0)
          ELSE IF ~t.sok THEN Fails(Resumed(t), StorageError, Session)
          ELSE IF t.icpt = "auth_token"
            THEN InterceptorStep(t, t.resp)
            ELSE Fails(Resumed(t), Unauthorized, InterceptorEnds(Session))
  /\ ret' = NoRet
  /\ UNCHANGED <<status, seq, faulty, lax>>
  /\ UNCHANGED <<location, alert>>
  /\ Memoized(FALSE)

\* resumes after setItem('auth_token'); a rejected setItem goes to the catch
RefreshWritten(t) ==
  /\ t.op = "refresh" /\ t.pc = "write"
  /\ IF t.sok
       THEN RefreshReturns(t, RefreshReschedule(Session, t.exp), "true")
       ELSE \E removed \in StorageOutcomes :
              /\ Commit(ClearSessionStart(Session, removed))
              /\ Step(t, [t EXCEPT !.pc = "clear", !.sok = removed])
              /\ ret' = NoRet
              /\ UNCHANGED <<status, seq>>
  /\ UNCHANGED <<faulty, lax>>
  /\ UNCHANGED <<location, alert>>
  /\ Memoized(FALSE)

\* clearSession in the catch resumes after multiRemove
RefreshCleared(t) ==
  /\ t.op = "refresh" /\ t.pc = "clear"
  /\ IF t.sok
       THEN RefreshReturns(t, ClearSessionEnd(Session), "false")
       ELSE RefreshReturns(t, Session, "raise")
  /\ UNCHANGED <<faulty, lax>>
  /\ UNCHANGED <<location, alert>>
  /\ Memoized(FALSE)

\* --------------------------- refreshUser / updateProfile / updateTargets
CallUserOp(op) ==
  /\ Pending < Capacity
  /\ Spawn([NewTask(op, "req") EXCEPT !.reqs = 1,
                                       !.bearer = RequestInterceptor(authToken)])
  /\ ret' = NoRet
  /\ seq' = 0
  /\ UNCHANGED <<user, token, refreshToken, status, authToken, store, timers,
                 refreshTimeoutRef, faulty, lax>>
  /\ UNCHANGED <<location, alert>>
  /\ Memoized(FALSE)

\* the answer to GET /auth/me, PUT /auth/profile or PUT /auth/targets
UserOpResponse(t) ==
  /\ t.op \in UserOps /\ t.pc = "req"
  /\ UNCHANGED status
  /\ LET Fails(x, err, s) ==
           /\ Commit(s)
           /\ Finish(t)
           /\ Returned(x, "raise")
           /\ Memoized(FALSE)
     IN IF t.icpt = "none"
          THEN \E raw \in BackendOutcomes(TRUE, t.bearer) :
                 LET d == Deliver(raw)
                     s0 == AfterFulfilled(Session, raw.status)
                 IN IF d.cleared
                      THEN InterceptorStep(t, RespKind(raw)) /\ Memoized(FALSE)
                      ELSE IF d.ok
                        THEN \E u \in Profiles :
                               /\ Commit([s0 EXCEPT !.user = u])
                               /\ Finish(t)
                               /\ Returned([t EXCEPT !.resp = RespKind(raw)], "ok")
                               /\ Memoized(TRUE)
                        ELSE Fails([t EXCEPT !.resp = RespKind(raw)], d.err, s0)
          ELSE IF ~t.sok THEN Fails(Resumed(t), StorageError, Session)
          ELSE IF t.icpt = "auth_token"
            THEN InterceptorStep(t, t.resp) /\ Memoized(FALSE)
            ELSE Fails(Resumed(t), Unauthorized, InterceptorEnds(Session))
  /\ seq' = 0
  /\ UNCHANGED <<faulty, lax>>
  /\ UNCHANGED <<location, alert>>

\* ------------------------------------------------------------- navigation
\* a deep link opens a screen of group g
Navigate(g) ==
  /\ location' = g
  /\ ret' = NoRet
  /\ UNCHANGED <<alert, memo>>
  /\ UNCHANGED <<user, token, refreshToken, status, authToken, store, timers,
                 refreshTimeoutRef, tasks, seq, faulty, lax>>

\* React has rendered a change of status, user or route and runs the effect
\* of NavigationShell, which redirects
GuardRuns ==
  /\ RouteGuard(status, user, location) # "none"
  /\ location' = RedirectTarget(RouteGuard(status, user, location), location)
  /\ ret' = Redirected(RouteGuard(status, user, location))
  /\ UNCHANGED <<alert, memo>>
  /\ UNCHANGED <<user, token, refreshToken, status, authToken, store, timers,
                 refreshTimeoutRef, tasks, seq, faulty, lax>>

\* ------------------------------------------------------------------ next
BootStep ==
  \E t \in InFlight :
    \/ BootReadRefresh(t)
    \/ BootRestore(t)
    \/ BootProfile(t)
    \/ BootCleared(t)

Next ==
  \/ Restart
  \/ BootStep
  \/ \E op \in {"login", "register"} : CallAuth(op)
  \/ \E t \in InFlight : AuthResponse(t)
  \/ \E t \in InFlight : AuthPersisted(t)
  \/ CallLogout
  \/ OpenAlert
  \/ PressLogout
  \/ CancelAlert
  \/ \E t \in InFlight : LogoutResponse(t)
  \/ \E t \in InFlight : LogoutCleared(t)
  \/ TimerFires
  \/ CallRefresh
  \/ \E t \in InFlight : RefreshRead(t)
  \/ \E t \in InFlight : RefreshResponse(t)
  \/ \E t \in InFlight : RefreshWritten(t)
  \/ \E t \in InFlight : RefreshCleared(t)
  \/ \E op \in UserOps : CallUserOp(op)
  \/ \E t \in InFlight : UserOpResponse(t)
  \/ \E g \in Groups \ {location} : Navigate(g)
  \/ GuardRuns

\* AsyncStorage is reliable
Spec == Init /\ [][Next]_vars

\* AsyncStorage operations may fail
SpecF == InitF /\ [][Next]_vars

\* the backend may answer 200 to a request without credentials
SpecB == InitB /\ [][Next]_vars

\* a step of bootstrap, the refreshAccessToken call it makes included
BootProgress ==
  \/ BootStep
  \/ \E t \in InFlight :
       /\ t.boot
       /\ (RefreshRead(t) \/ RefreshResponse(t) \/ RefreshWritten(t) \/ RefreshCleared(t))

\* Every await of bootstrap ends: AsyncStorage answers (or rejects), and
\* axios answers or gives up after its timeout of 15 s.
SpecL == InitF /\ [][Next]_vars /\ WF_vars(BootProgress)

\* ---------------------------------------------------------------- claims
Cleared == user = Null /\ token = Null /\ store = EmptyStore /\ timers = {}

\* C1: whenever status is ready, the in-memory access token is present
\* exactly when the user is present.
C1_TokenIffUser == status = "ready" => ((token # Null) <=> (user # Null))

\* C2: whenever a refreshAccessToken call (one that ran without any other
\* call in flight) returns false, user and access token are absent at the
\* return.
C2_RefreshFailureClears ==
  (ret.t.op = "refresh" /\ ret.result = "false" /\ ret.t.solo)
  => (user = Null /\ token = Null)

\* C3: when the last of two overlapping refreshAccessToken calls returns,
\* both having read a refresh token, and one of the two failed, the session
\* is cleared: no user, no access token, no persisted key, no pending timer.
C3_OverlapFailureClears ==
  (/\ ret.t.op = "refresh"
   /\ ret.result \in {"true", "false"}
   /\ ret.t.ovl /\ ret.t.pure /\ ret.t.rt # Null
   /\ (ret.result = "false" \/ ret.t.ovlFail)
   /\ tasks = EmptyBag)
  => Cleared

\* C4: bootstrap terminates: whenever status is loading it becomes ready
\* (unless the process is killed and started again first), whatever the
\* storage reads, the profile fetch and the refresh call do.
C4_BootstrapTerminates ==
  (status = "loading") ~> (status = "ready" \/ ret.result = "start")

\* bootstrap found a stored token, lost the network and ended ready
C4_Witness ==
  /\ status = "ready"
  /\ ret.t.op = "bootstrap" /\ ret.t.acc # Null /\ ret.t.resp = "network"
  /\ user = Null

\* a call that has just returned after calling scheduleTokenRefresh
Scheduled ==
  \/ ret.t.op \in {"login", "register"} /\ ret.result = "ok" /\ ret.t.exp # 0
  \/ ret.t.op = "refresh" /\ ret.result = "true" /\ ret.t.exp # 0
  \/ ret.t.op = "bootstrap" /\ ret.t.resp = "ok"

\* C5: at most one refresh timer is pending in every state, it is the one
\* refreshTimeoutRef names, and exactly one is pending when a call that
\* scheduled a refresh returns.
C5_OneTimer ==
  /\ Cardinality(timers) <= 1
  /\ \A tm \in timers : tm.id = refreshTimeoutRef
  /\ Scheduled => Cardinality(timers) = 1

\* a scheduling call has returned, and it replaced a pending timer
C5_Witness ==
  /\ Scheduled
  /\ \E tm \in timers : tm.replaced /\ tm.id = refreshTimeoutRef

\* values of expiresIn around the 90 s at which the minimum stops applying
ExpiresInSamples == {1, 10, 59, 60, 61, 89, 90, 91, 600, 840, 3600}

\* C6: the delay of a scheduled refresh is max(expiresIn - 60, 30) seconds;
\* expiresIn = 10 gives 30 s and expiresIn = 600 gives 540 s.
C6_RefreshDelay ==
  /\ \A e \in ExpiresInSamples : RefreshTime(e) = Max(e - 60, 30) * 1000
  /\ \A tm \in timers :
       /\ tm.delay = Max(tm.from - 60, 30) * 1000
       /\ tm.from = 10 => tm.delay = 30 * 1000
       /\ tm.from = 600 => tm.delay = 540 * 1000

\* a timer scheduled from expiresIn = 10 is pending
C6_Witness == \E tm \in timers : tm.from = 10 /\ tm.delay = 30000

\* C7: after a successful login, any number of successful refreshAccessToken
\* calls and then logout, one after the other, both persisted keys are
\* absent when logout completes.
C7_LoginRefreshLogout ==
  (ret.t.op = "logout" /\ ret.t.solo /\ ret.t.inSeq > 0)
  => (ret.result = "ok" /\ store = EmptyStore)

\* logout has completed after a login and at least one successful refresh
C7_Witness ==
  /\ ret.t.op = "logout" /\ ret.t.solo /\ ret.t.inSeq = 2
  /\ ret.t.reqs = 1
  /\ store = EmptyStore

\* C8: a logout (with no other call in flight) does not raise and leaves no
\* user, no access token, no persisted key and no pending timer, whatever
\* the backend answered.
C8_LogoutSucceedsLocally ==
  (ret.t.op = "logout" /\ ret.t.solo) => (ret.result = "ok" /\ Cleared)

\* a logout has completed although the backend rejected its request
C8_Witness ==
  /\ ret.t.op = "logout" /\ ret.t.solo
  /\ ret.t.reqs = 1 /\ ret.t.resp = "rejected"
  /\ ret.result = "ok"

\* C9: after a successful login or register (with no other call in flight)
\* whose response gave an expiresIn, both keys hold the returned tokens, the
\* user is set, the bearer token is the returned access token, and the one
\* pending timer is set from that expiresIn.
C9_AuthSuccessPersists ==
  (/\ ret.t.op \in {"login", "register"}
   /\ ret.result = "ok" /\ ret.t.solo /\ ret.t.exp # 0)
  => /\ store = [auth_token |-> ret.t.acc, refresh_token |-> ret.t.rt]
     /\ user # Null
     /\ authToken = ret.t.acc
     /\ token = ret.t.acc
     /\ \E tm \in timers :
          /\ timers = {tm}
          /\ tm.id = refreshTimeoutRef
          /\ tm.from = ret.t.exp
          /\ tm.delay = RefreshTime(ret.t.exp)

\* a register has succeeded with tokens that differ and expiresIn = 600
C9_Witness ==
  /\ ret.t.op = "register" /\ ret.result = "ok" /\ ret.t.solo
  /\ ret.t.exp = 600 /\ ret.t.acc # ret.t.rt
  /\ store.refresh_token = ret.t.rt

\* login calls in flight that wait for the answer to their request
LoginPosts(b) ==
  BagCardinality([t \in {x \in BagToSet(b) : x.op = "login" /\ x.pc = "post"}
                    |-> CopiesIn(t, b)])

\* C10: a login the backend rejects raises to its caller after exactly one
\* request, and neither the step that calls login nor the step that
\* delivers the rejection changes user, access token or pending timer.
C10_RejectedLoginFrame ==
  [][/\ (LoginPosts(tasks') > LoginPosts(tasks))
          => UNCHANGED <<user, token, timers>>
     /\ (ret'.t.op = "login" /\ ret'.t.resp \in {"rejected", "error"})
          => /\ ret'.result = "raise"
             /\ ret'.t.reqs = 1
             /\ UNCHANGED <<user, token, timers>>]_vars

\* a login was rejected while a session with a pending timer existed
C10_Witness ==
  /\ ret.t.op = "login" /\ ret.t.resp = "rejected" /\ ret.result = "raise"
  /\ user # Null /\ token # Null /\ timers # {}

\* C11: a 401 answer to login or register reaches the caller as an error
\* and leaves the persisted auth_token and refresh_token and the bearer
\* token as they were.
C11_Login401KeepsTokens ==
  [][(ret'.t.op \in {"login", "register"} /\ ret'.t.resp = "rejected")
       => /\ ret'.result = "raise"
          /\ UNCHANGED <<store, authToken>>]_vars

\* a register was answered 401 while tokens of a session were stored
C11_Witness ==
  /\ ret.t.op = "register" /\ ret.t.resp = "rejected"
  /\ store.auth_token # Null /\ store.refresh_token # Null
  /\ authToken # Null

\* C12: when a request other than login and register is answered 401, its
\* caller gets a rejection, both persisted keys are absent and the bearer
\* token is null.
C12_Unauthorized401Clears ==
  (ret.t.op \in UserOps /\ ret.t.resp = "rejected" /\ ret.t.solo)
  => /\ ret.result = "raise"
     /\ store = EmptyStore
     /\ authToken = Null

\* calls that are inside clearSession
Clearing(b) ==
  BagCardinality([t \in {x \in BagToSet(b) : x.pc = "clear"} |-> CopiesIn(t, b)])

\* C13: a 401 on an authenticated endpoint, as the adapter handles it,
\* leaves user, status and the screen unchanged, so that the route guard
\* has no more to redirect than before; user becomes absent only in a step
\* that runs clearSession (or starts the process anew).
C13_AdapterLeavesSession ==
  [][/\ (ret'.t.op \in UserOps /\ ret'.t.resp = "rejected")
          => /\ UNCHANGED <<user, status, location>>
             /\ RouteGuard(status', user', location') = RouteGuard(status, user, location)
     /\ (user # Null /\ user' = Null)
          => (Clearing(tasks') > Clearing(tasks) \/ ret' = Started)]_vars

\* a profile request was answered 401 while a user was on a protected screen
C13_Witness ==
  /\ ret.t.op \in UserOps /\ ret.t.resp = "rejected" /\ ret.result = "raise"
  /\ status = "ready" /\ user # Null /\ location = "(app)"

\* a bootstrap during which no other call ran has ended, directly or
\* through the refreshAccessToken call it made
BootEnded ==
  /\ ret.t.solo
  /\ ret.t.op = "bootstrap" \/ (ret.t.boot /\ ret.result \in {"true", "raise"})

\* C14: a bootstrap that found an access token and a refresh token stored
\* and whose profile fetch was answered 401 ends (the refresh, if one was
\* made, having succeeded) with status ready, an access token in memory
\* and in the store, and the user set.
C14_BootRefreshRestores ==
  (/\ BootEnded
   /\ ret.t.fetch = "rejected" /\ ret.t.rt # Null
   /\ ret.t.boot => ret.result = "true")
  => /\ status = "ready"
     /\ token # Null /\ store.auth_token = token
     /\ user # Null

\* C15: a bootstrap that found an access token but no refresh token stored
\* and whose profile fetch was answered 401 ends with status ready, no user
\* and no persisted key, after the one request of the fetch.
C15_BootNoRefreshToken ==
  (BootEnded /\ ret.t.fetch = "rejected" /\ ret.t.rt = Null)
  => /\ status = "ready"
     /\ user = Null
     /\ store = EmptyStore
     /\ ret.t.reqs = 1

\* such a bootstrap has ended
C15_Witness ==
  /\ BootEnded /\ ret.t.op = "bootstrap"
  /\ ret.t.acc # Null /\ ret.t.rt = Null /\ ret.t.fetch = "rejected"
  /\ status = "ready"

\* C16: a bootstrap that found an access token stored and whose profile
\* fetch failed otherwise than by a 401 ends with status ready, no user, no
\* access token and no persisted key.
C16_BootOtherFailureClears ==
  (BootEnded /\ ret.t.fetch \in {"error", "network"})
  => /\ status = "ready"
     /\ user = Null /\ token = Null
     /\ store = EmptyStore

\* a bootstrap with both tokens stored has ended after a network failure
C16_Witness ==
  /\ BootEnded /\ ret.t.fetch = "network"
  /\ ret.t.acc # Null /\ ret.t.rt # Null
  /\ status = "ready" /\ store = EmptyStore

\* C17: while status is loading the route guard issues no redirect,
\* whatever the user and the screen: the effect returns "none" for every
\* user and group, and a redirect is never the step that led to a state
\* with status loading.
C17_LoadingNoRedirect ==
  /\ \A u \in {Null} \cup Profiles : \A g \in Groups :
       RouteGuard("loading", u, g) = "none"
  /\ ret.result \in {"login", "home"} => status # "loading"

\* bootstrap is running on a screen of the app group with no user
C17_Witness ==
  /\ status = "loading" /\ user = Null /\ location = "(app)"
  /\ ret.result = "none"

\* C18: in a ready session with no user on a screen of the app group the
\* guard has a redirect to login to issue; its redirect to login is issued
\* in such a state only and leaves the screen in the auth group with
\* nothing more to redirect; and when the guard has nothing to redirect,
\* the next step is no redirect.
C18_UnauthRedirectsOnce ==
  [][/\ (status = "ready" /\ user = Null /\ location = "(app)")
          => RouteGuard(status, user, location) = "login"
     /\ (ret'.result = "login")
          => /\ status = "ready" /\ user = Null /\ location = "(app)"
             /\ location' = "(auth)"
             /\ RouteGuard(status', user', location') = "none"
     /\ (RouteGuard(status, user, location) = "none")
          => ret'.result \notin {"login", "home"}]_vars

\* the guard has redirected to login
C18_Witness ==
  /\ ret.result = "login"
  /\ status = "ready" /\ user = Null /\ location = "(auth)"

\* C19: in every state with status ready the screen is in the app group
\* only if a user is set.
C19_ProtectedNeedsUser ==
  status = "ready" => (location = "(app)" => user # Null)

\* the login and register calls whose request has succeeded
AuthSucceeded(b) ==
  BagCardinality([t \in {x \in BagToSet(b) : x.op \in {"login", "register"}
                                             /\ x.pc = "persist"}
                    |-> CopiesIn(t, b)])

\* C20: once bootstrap has completed, a step that takes user from absent to
\* present is the success of a login or register call.
C20_UserSetOnlyByAuth ==
  [][(status = "ready" /\ user = Null /\ user' # Null)
       => AuthSucceeded(tasks') > AuthSucceeded(tasks)]_vars

\* C21: refreshUser, updateProfile or updateTargets called in a ready
\* session with no user and no access token raises to its caller and
\* leaves user absent, whatever the backend answers to its request.
C21_UnauthOpsFail ==
  [][(/\ ret'.t.op \in UserOps /\ ~ret'.t.bearer
      /\ status = "ready" /\ user = Null /\ token = Null)
       => /\ ret'.result = "raise"
          /\ user' = Null]_vars

\* C22: a redirect of the guard is never followed at once by another, and
\* when the guard has redirected to home and the next step is the
\* successful return of the login or register call (alone in flight) that
\* set the user, the navigation of the calling screen leaves the screen in
\* the app group, with nothing for the guard to redirect.
C22_AuthRedirectsOnce ==
  [][/\ (ret.result \in {"login", "home"}) => ret'.result \notin {"login", "home"}
     /\ (/\ ret.result = "home" /\ status = "ready"
         /\ ret'.t.op \in {"login", "register"} /\ ret'.result = "ok" /\ ret'.t.solo)
          => /\ location = "(app)" /\ location' = "(app)"
             /\ RouteGuard(status', user', location') = "none"]_vars

\* C23: when logout has completed in a ready session and left no user, no
\* refresh timer is pending, and the next step leaves none pending unless
\* it is the success of a login or register call.
C23_NoTimerAfterLogout ==
  [][(ret.t.op = "logout" /\ ret.result = "ok" /\ status = "ready" /\ user = Null)
       => /\ timers = {}
          /\ \/ timers' = {}
             \/ ret'.t.op \in {"login", "register"} /\ ret'.result = "ok"]_vars

\* C24: when a refreshAccessToken call (alone in flight) whose response
\* gave an expiresIn returns true, the in-memory access token, the bearer
\* token and the persisted auth_token are the token of the response, and
\* the one pending timer is set from that expiresIn.
C24_RefreshSuccessUpdates ==
  (/\ ret.t.op = "refresh" /\ ret.result = "true"
   /\ ret.t.solo /\ ret.t.exp # 0)
  => /\ token = ret.t.acc
     /\ authToken = ret.t.acc
     /\ store.auth_token = ret.t.acc
     /\ \E tm \in timers :
          /\ timers = {tm}
          /\ tm.id = refreshTimeoutRef
          /\ tm.from = ret.t.exp
          /\ tm.delay = RefreshTime(ret.t.exp)

\* a refresh has succeeded with expiresIn = 600 on a session whose refresh
\* token is still stored
C24_Witness ==
  /\ ret.t.op = "refresh" /\ ret.result = "true" /\ ret.t.solo
  /\ ret.t.exp = 600
  /\ store.refresh_token = ret.t.rt /\ user # Null

\* C25: when the multiSet of persistSession fails inside login or register,
\* the call ends with user and access token absent.
C25_WriteFailureUnauth ==
  (ret.t.op \in {"login", "register"} /\ ret.t.resp = "ok" /\ ~ret.t.sok)
  => (user = Null /\ token = Null)

\* C26: a refreshAccessToken call that finds no refresh_token stored
\* returns false and has issued no request.
C26_RefreshWithoutToken ==
  (ret.t.op = "refresh" /\ ret.t.rt = Null)
  => (ret.result = "false" /\ ret.t.reqs = 0)

\* a timer has fired with no refresh_token stored and the call has returned
C26_Witness ==
  /\ ret.t.op = "refresh" /\ ret.t.rt = Null /\ ret.result = "false"
  /\ ret.t.reqs = 0 /\ store.refresh_token = Null

\* C27: a bootstrap (no other call running) that finds the two tokens a
\* login stored and whose profile fetch succeeds ends with status ready,
\* the user set, the stored access token in memory and in the bearer
\* header, the store as it was, and one pending timer set for 14 minutes.
C27_RestartRestoresSession ==
  (BootEnded /\ ret.t.fetch = "ok" /\ ret.t.rt # Null)
  => /\ status = "ready"
     /\ user # Null
     /\ token = ret.t.acc /\ authToken = ret.t.acc
     /\ store = [auth_token |-> ret.t.acc, refresh_token |-> ret.t.rt]
     /\ \E tm \in timers :
          /\ timers = {tm}
          /\ tm.id = refreshTimeoutRef
          /\ tm.from = BootExpiresIn

\* a restarted process has restored a session whose two tokens differ
C27_Witness ==
  /\ BootEnded /\ ret.t.op = "bootstrap" /\ ret.t.fetch = "ok"
  /\ ret.t.acc # Null /\ ret.t.rt # Null /\ ret.t.acc # ret.t.rt
  /\ status = "ready" /\ user # Null /\ timers # {}

\* C28: whenever no call is in flight, auth_token is stored exactly when
\* refresh_token is stored.
C28_StoredAsPair ==
  (tasks = EmptyBag)
  => ((store.auth_token # Null) <=> (store.refresh_token # Null))

\* C29: every pending refresh timer fires before the expiresIn seconds it
\* was scheduled from have passed.
C29_RefreshBeforeExpiry ==
  \A tm \in timers : tm.from > 0 => tm.delay < tm.from * 1000

\* C30: the bearer token of the adapter is the in-memory access token in
\* every state, so a request gets the Authorization header exactly when the
\* session holds an access token.
C30_BearerIsToken ==
  /\ authToken = token
  /\ RequestInterceptor(authToken) <=> (token # Null)

\* a request of a session with a token was answered 401 and has returned
C30_Witness ==
  /\ ret.t.op \in UserOps /\ ret.t.bearer /\ ret.t.resp = "rejected"
  /\ token # Null /\ authToken = token

====
